---- MODULE Spec2Model ----
(***************************************************************************)
(* The catalog translator of dialect/sql/schema/atlas.go: Migrate.aTables  *)
(* and the MySQL atBuilder it drives (atTable, atTypeC, atUniqueC,         *)
(* atIncrementC, atIncrementT, atImplicitIndexName, atIndex).              *)
(*                                                                         *)
(* Conventions of the model                                                *)
(*  - a Go nil (pointer, interface, error, map) is the record Nil;         *)
(*  - column and index names are sequences of one-character strings, so    *)
(*    that HasPrefix, TrimLeft and ParseInt work on them as in Go;         *)
(*  - an int64 that may exceed 2^31 (Column.Size) is a pair of limbs       *)
(*    [hi, lo] standing for hi * 2^16 + lo, 0 <= lo < 2^16;                *)
(*  - a pointer to a translated table is its position in tables2, and a    *)
(*    pointer to a translated column is its position in the Columns of     *)
(*    its table (columns are allocated and appended in the same order).    *)
(***************************************************************************)
EXTENDS Integers, Sequences, FiniteSets, TLC

VARIABLES
    tables1,      \* the input tables of aTables ([]*Table)
    d,            \* the MySQL dialect: [version, maria, defaultSize]
    universalID,  \* Migrate.universalID
    pkRangeDB,    \* what the database answers to pkRange, per table name
    tables2,      \* aTables' tables2 slice (Nil where not yet stored)
    t2,           \* the table under construction in the first loop
    pc,           \* position in aTables
    i,            \* index of the table loop that is running
    j,            \* index of the column loop of aColumns
    queries,      \* the pkRange calls made so far (table names)
    ret           \* aTables' return value once pc = "done": [tables, err]

vars == <<tables1, d, universalID, pkRangeDB, tables2, t2, pc, i, j, queries, ret>>

Nil == [k |-> "nil"]

Error(what, symbol, name) == [k |-> "error", what |-> what, symbol |-> symbol, name |-> name]

(***************************************************************************)
(* Strings (Go's strings and strconv packages, as the code uses them).     *)
(***************************************************************************)
Digits == {"0", "1", "2", "3", "4", "5", "6", "7", "8", "9"}

DigitVal(ch) ==
    CASE ch = "0" -> 0 [] ch = "1" -> 1 [] ch = "2" -> 2 [] ch = "3" -> 3
      [] ch = "4" -> 4 [] ch = "5" -> 5 [] ch = "6" -> 6 [] ch = "7" -> 7
      [] ch = "8" -> 8 [] ch = "9" -> 9

Chars(s) == {s[n] : n \in 1..Len(s)}

HasPrefix(s, prefix) ==
    /\ Len(prefix) <= Len(s)
    /\ SubSeq(s, 1, Len(prefix)) = prefix

RECURSIVE TrimLeft(_, _)
\* strings.TrimLeft: drops every leading character that is in the cutset.
TrimLeft(s, cutset) ==
    IF s = <<>> \/ Head(s) \notin Chars(cutset)
    THEN s
    ELSE TrimLeft(Tail(s), cutset)

RECURSIVE DecimalValue(_)
DecimalValue(s) ==
    IF s = <<>> THEN 0
    ELSE 10 * DecimalValue(SubSeq(s, 1, Len(s) - 1)) + DigitVal(s[Len(s)])

\* strconv.ParseInt(s, 10, 64): an optional sign, then one or more digits.
\* (Names of the model are too short to reach the int64 range error.)
ParseInt(s) ==
    LET signed == s # <<>> /\ Head(s) \in {"+", "-"}
        body   == IF signed THEN Tail(s) ELSE s
    IN  IF body = <<>> \/ \E n \in 1..Len(body) : body[n] \notin Digits
        THEN [ok |-> FALSE, v |-> 0]
        ELSE [ok |-> TRUE,
              v  |-> IF signed /\ Head(s) = "-"
                     THEN 0 - DecimalValue(body) ELSE DecimalValue(body)]

\* Byte values of the characters names are made of (for sort.Strings).
Ascii(ch) ==
    CASE ch = "+" -> 43 [] ch = "-" -> 45 [] ch \in Digits -> 48 + DigitVal(ch)
      [] ch = "_" -> 95 [] ch = "a" -> 97 [] ch = "b" -> 98 [] ch = "c" -> 99
      [] ch = "d" -> 100 [] OTHER -> 122

RECURSIVE StrLess(_, _)
StrLess(a, b) ==
    IF b = <<>> THEN FALSE
    ELSE IF a = <<>> THEN TRUE
    ELSE IF Head(a) # Head(b) THEN Ascii(Head(a)) < Ascii(Head(b))
    ELSE StrLess(Tail(a), Tail(b))

RECURSIVE SortStrings(_)
\* sort.Strings over the key set of a map.
SortStrings(S) ==
    IF S = {} THEN <<>>
    ELSE LET m == CHOOSE x \in S : \A y \in S \ {x} : StrLess(x, y)
         IN  <<m>> \o SortStrings(S \ {m})

(***************************************************************************)
(* int64 values as limbs.                                                  *)
(***************************************************************************)
I64(hi, lo) == [hi |-> hi, lo |-> lo]

Lt64(x, y) == x.hi < y.hi \/ (x.hi = y.hi /\ x.lo < y.lo)

Le64(x, y) == x = y \/ Lt64(x, y)

Zero64 == I64(0, 0)

MaxUint8 == I64(0, 255)

MaxUint16 == I64(0, 65535)

MaxUint32 == I64(65535, 65535)

\* 1<<24
Shl24 == I64(256, 0)

\* 1<<24 - 1
Shl24m1 == I64(255, 65535)

(***************************************************************************)
(* Library and repository code that atlas.go calls and src/ does not hold. *)
(***************************************************************************)
\* strings.ToLower on the type strings of the model.
ToLower(s) ==
    CASE s = "BIGINT" -> "bigint"
      [] s = "Text" -> "text"
      [] s = "VARCHAR(X)" -> "varchar(x)"
      [] OTHER -> s

\* mysql.ParseType on the type strings of the model: the types it knows, a
\* malformed size as an error, anything else kept as an unsupported type.
ParseType(raw) ==
    CASE raw = "bigint" -> [err |-> Nil, t |-> [k |-> "IntegerType", T |-> "bigint", Unsigned |-> FALSE]]
      [] raw = "text" -> [err |-> Nil, t |-> [k |-> "StringType", T |-> "text", Size |-> Zero64]]
      [] raw = "datetime" -> [err |-> Nil, t |-> [k |-> "TimeType", T |-> "datetime"]]
      [] raw = "point" -> [err |-> Nil, t |-> [k |-> "SpatialType", T |-> "point"]]
      [] raw \in {"", "varchar(x)"} -> [err |-> Error("parse", <<>>, <<raw>>), t |-> Nil]
      [] OTHER -> [err |-> Nil, t |-> [k |-> "UnsupportedType", T |-> raw]]

\* compareVersions(v1, v2): -1, 0 or 1; versions are <<major, minor, patch>>.
compareVersions(v1, v2) ==
    IF v1 = v2 THEN 0
    ELSE IF \/ v1[1] < v2[1]
            \/ (v1[1] = v2[1] /\ v1[2] < v2[2])
            \/ (v1[1] = v2[1] /\ v1[2] = v2[2] /\ v1[3] < v2[3])
         THEN -1 ELSE 1

\* Column.scanTypeOr(t): the raw type the column was scanned with, else t.
scanTypeOr(c1, t) == IF c1.typ # "" THEN c1.typ ELSE t

\* MySQL.defaultSize(c1): the dialect's default string size.
defaultSize(dd, c1) == dd.defaultSize

\* Column.supportDefault(): whether the database takes a DEFAULT for the column.
supportDefault(c1) == c1.defaultSupported

\* schema.Table.Column(name): the first column of that name, 0 when none.
Column(t, name) ==
    IF \E n \in 1..Len(t.Columns) : t.Columns[n].Name = name
    THEN CHOOSE n \in 1..Len(t.Columns) :
            /\ t.Columns[n].Name = name
            /\ \A m \in 1..(n - 1) : t.Columns[m].Name # name
    ELSE 0

(***************************************************************************)
(* MySQL.atImplicitIndexName                                               *)
(***************************************************************************)
atImplicitIndexName(idx, c1) ==
    IF idx.Name = c1.Name THEN TRUE
    ELSE IF ~HasPrefix(idx.Name, c1.Name \o <<"_">>) THEN FALSE
    ELSE LET p == ParseInt(TrimLeft(idx.Name, c1.Name \o <<"_">>))
         IN  p.ok /\ p.v > 1

(***************************************************************************)
(* MySQL.atTypeC: [err, c2], c2 being the translated column afterwards.    *)
(***************************************************************************)
V578 == <<5, 7, 8>>

V802 == <<8, 0, 2>>

\* The size a bytes column is tiered by (lines 204-207).
BytesSize(c1) == IF Lt64(Zero64, c1.Size) THEN c1.Size ELSE MaxUint16

\* BytesType with the first two comparisons strict.
BytesTypeStrict(size) ==
    IF Lt64(size, MaxUint8) THEN [k |-> "BinaryType", T |-> "tinyblob"]
    ELSE IF Lt64(size, MaxUint16) THEN [k |-> "BinaryType", T |-> "blob"]
    ELSE IF Lt64(size, Shl24) THEN [k |-> "BinaryType", T |-> "mediumblob"]
    ELSE IF Le64(size, MaxUint32) THEN [k |-> "BinaryType", T |-> "longblob"]
    ELSE Nil

\* The inner switch of the TypeBytes case (lines 208-217); Nil when no case
\* applies and t keeps its zero value.
BytesType(size) ==
    IF Le64(size, MaxUint8) THEN [k |-> "BinaryType", T |-> "tinyblob"]
    ELSE IF Le64(size, MaxUint16) THEN [k |-> "BinaryType", T |-> "blob"]
    ELSE IF Lt64(size, Shl24) THEN [k |-> "BinaryType", T |-> "mediumblob"]
    ELSE IF Le64(size, MaxUint32) THEN [k |-> "BinaryType", T |-> "longblob"]
    ELSE Nil

\* The TypeString case (lines 224-237).
StringType(dd, c1) ==
    LET size == IF c1.Size = Zero64 THEN defaultSize(dd, c1) ELSE c1.Size
    IN  IF c1.typ = "tinytext" \/ c1.typ = "text"
        THEN [k |-> "StringType", T |-> c1.typ, Size |-> Zero64]
        ELSE IF Le64(size, MaxUint16)
        THEN [k |-> "StringType", T |-> "varchar", Size |-> size]
        ELSE IF size = Shl24m1
        THEN [k |-> "StringType", T |-> "mediumtext", Size |-> Zero64]
        ELSE [k |-> "StringType", T |-> "longtext", Size |-> Zero64]

\* Whether the TypeTime case calls c2.SetNull (line 245; && binds tighter
\* than ||).
TimeCompensates(dd, c1) ==
    dd.maria \/ (compareVersions(dd.version, V802) = -1 /\ c1.Default = Nil)

\* The SchemaType branch parsing the override as written, not lower-cased.
atTypeCOverrideAsWritten(c1, c2) ==
    LET p == ParseType(c1.SchemaType)
    IN  IF p.err # Nil
        THEN [err |-> p.err, c2 |-> c2]
        ELSE [err |-> Nil, c2 |-> [c2 EXCEPT !.Type = p.t]]

\* The SchemaType branch (lines 175-182).
atTypeCOverride(c1, c2) ==
    LET p == ParseType(ToLower(c1.SchemaType))
    IN  IF p.err # Nil
        THEN [err |-> p.err, c2 |-> c2]
        ELSE [err |-> Nil, c2 |-> [c2 EXCEPT !.Type = p.t]]

\* The outer variable t after the switch of lines 184-261. In the default
\* case the parsed type is bound to a t declared inside the case clause
\* (t, err := ...), so the outer t keeps its zero value, nil.
SwitchType(dd, c1) ==
    CASE c1.Type = "TypeBool" -> [k |-> "BoolType", T |-> "boolean"]
      [] c1.Type = "TypeInt8" -> [k |-> "IntegerType", T |-> "tinyint", Unsigned |-> FALSE]
      [] c1.Type = "TypeUint8" -> [k |-> "IntegerType", T |-> "tinyint", Unsigned |-> TRUE]
      [] c1.Type = "TypeInt16" -> [k |-> "IntegerType", T |-> "smallint", Unsigned |-> FALSE]
      [] c1.Type = "TypeUint16" -> [k |-> "IntegerType", T |-> "smallint", Unsigned |-> TRUE]
      [] c1.Type = "TypeInt32" -> [k |-> "IntegerType", T |-> "int", Unsigned |-> FALSE]
      [] c1.Type = "TypeUint32" -> [k |-> "IntegerType", T |-> "int", Unsigned |-> TRUE]
      [] c1.Type \in {"TypeInt", "TypeInt64"} -> [k |-> "IntegerType", T |-> "bigint", Unsigned |-> FALSE]
      [] c1.Type \in {"TypeUint", "TypeUint64"} -> [k |-> "IntegerType", T |-> "bigint", Unsigned |-> TRUE]
      [] c1.Type = "TypeBytes" -> BytesType(BytesSize(c1))
      [] c1.Type = "TypeJSON" ->
            IF compareVersions(dd.version, V578) = -1
            THEN [k |-> "BinaryType", T |-> "longblob"]
            ELSE [k |-> "JSONType", T |-> "json"]
      [] c1.Type = "TypeString" -> StringType(dd, c1)
      [] c1.Type \in {"TypeFloat32", "TypeFloat64"} -> [k |-> "FloatType", T |-> scanTypeOr(c1, "double")]
      [] c1.Type = "TypeTime" -> [k |-> "TimeType", T |-> scanTypeOr(c1, "timestamp")]
      [] c1.Type = "TypeEnum" -> [k |-> "EnumType", T |-> "enum", Values |-> c1.Enums]
      [] c1.Type = "TypeUUID" -> [k |-> "StringType", T |-> "char", Size |-> I64(0, 36)]
      [] OTHER -> Nil

KnownTypes ==
    {"TypeBool", "TypeInt8", "TypeUint8", "TypeInt16", "TypeUint16", "TypeInt32",
     "TypeUint32", "TypeInt", "TypeInt64", "TypeUint", "TypeUint64", "TypeBytes",
     "TypeJSON", "TypeString", "TypeFloat32", "TypeFloat64", "TypeTime", "TypeEnum",
     "TypeUUID"}

\* What the cases of the switch do to c2 besides choosing t.
SwitchEffects(dd, c1, c2) ==
    CASE c1.Type = "TypeTime" /\ TimeCompensates(dd, c1) -> [c2 EXCEPT !.Null = (c1.Attr = "")]
      [] c1.Type = "TypeUUID" -> [c2 EXCEPT !.Collation = "utf8mb4_bin"]
      [] c1.Type \notin KnownTypes -> [c2 EXCEPT !.Type = ParseType(c1.typ).t]
      [] OTHER -> c2

atTypeC(dd, c1, c2) ==
    IF c1.SchemaType # ""
    THEN atTypeCOverride(c1, c2)
    ELSE IF c1.Type \notin KnownTypes /\ ParseType(c1.typ).err # Nil
    THEN [err |-> ParseType(c1.typ).err, c2 |-> c2]
    ELSE [err |-> Nil,
          c2  |-> [SwitchEffects(dd, c1, c2) EXCEPT !.Type = SwitchType(dd, c1)]]

(***************************************************************************)
(* MySQL.atTable, atIncrementT, atIncrementC.                              *)
(***************************************************************************)
NewTable(name) ==
    [Name |-> name, Charset |-> "", Collation |-> "", Attrs |-> <<>>, Checks |-> <<>>,
     Columns |-> <<>>, Indexes |-> <<>>, PrimaryKey |-> Nil, ForeignKeys |-> <<>>]

\* The named checks of the annotation, in sorted name order (lines 159-171).
NamedChecks(checks) ==
    LET names == SortStrings(DOMAIN checks)
    IN  [n \in 1..Len(names) |-> [Name |-> names[n], Expr |-> checks[names[n]]]]

atTable(t1, t) ==
    LET a  == t1.Annotation
        s0 == [t EXCEPT !.Charset = "utf8mb4", !.Collation = "utf8mb4_bin"]
    IN  IF a = Nil THEN s0
        ELSE LET s1 == IF a.Charset # "" THEN [s0 EXCEPT !.Charset = a.Charset] ELSE s0
                 s2 == IF a.Collation # "" THEN [s1 EXCEPT !.Collation = a.Collation] ELSE s1
                 s3 == IF a.Options # ""
                       THEN [s2 EXCEPT !.Attrs = Append(@, [k |-> "CreateOptions", V |-> a.Options])]
                       ELSE s2
                 s4 == IF a.Check # ""
                       THEN [s3 EXCEPT !.Checks = Append(@, [Name |-> <<>>, Expr |-> a.Check])]
                       ELSE s3
             IN  [s4 EXCEPT !.Checks = @ \o NamedChecks(a.Checks)]

atIncrementT(t, v) == [t EXCEPT !.Attrs = Append(@, [k |-> "AutoIncrement", V |-> v])]

atIncrementC(c) == [c EXCEPT !.Attrs = Append(@, [k |-> "AutoIncrement", V |-> 0])]

(***************************************************************************)
(* MySQL.atUniqueC: the table with the implicit index of unique column c1  *)
(* added, unless an explicit unique index has the implicit name. cid is    *)
(* the translated column c2.                                               *)
(***************************************************************************)
ExplicitlyIndexed(t1, c1) ==
    \E n \in 1..Len(t1.Indexes) :
        t1.Indexes[n].Unique /\ atImplicitIndexName(t1.Indexes[n], c1)

NewUniqueIndex(name, cid) ==
    [Name |-> name, Unique |-> TRUE, Parts |-> <<[C |-> cid, Attrs |-> <<>>]>>]

\* atUniqueC putting the implicit index in front of the index list.
atUniqueCPrepend(t1, c1, t, cid) ==
    IF ExplicitlyIndexed(t1, c1) THEN t
    ELSE [t EXCEPT !.Indexes = <<NewUniqueIndex(c1.Name, cid)>> \o @]

atUniqueC(t1, c1, t, cid) ==
    IF ExplicitlyIndexed(t1, c1) THEN t
    ELSE [t EXCEPT !.Indexes = Append(@, NewUniqueIndex(c1.Name, cid))]

(***************************************************************************)
(* Migrate.aColumns: one iteration of its loop, and the loop.              *)
(***************************************************************************)
NewColumn(c1) ==
    [Name |-> c1.Name, Null |-> c1.Nullable, Collation |-> c1.Collation,
     Type |-> Nil, Default |-> Nil, Attrs |-> <<>>]

RECURSIVE EscapeQuotes(_)
\* strings.ReplaceAll(v, "'", "''")
EscapeQuotes(v) ==
    IF v = <<>> THEN <<>>
    ELSE (IF Head(v) = "'" THEN <<"'", "'">> ELSE <<Head(v)>>) \o EscapeQuotes(Tail(v))

\* DefaultExpr quoting every string default, those of UUID and time columns
\* included.
DefaultExprQuoteStrings(c1) ==
    IF c1.Default.kind = "string"
    THEN <<"'">> \o EscapeQuotes(c1.Default.text) \o <<"'">>
    ELSE c1.Default.text

\* The default expression of lines 95-103.
DefaultExpr(c1) ==
    IF c1.Default.kind = "string" /\ c1.Type # "TypeUUID" /\ c1.Type # "TypeTime"
    THEN <<"'">> \o EscapeQuotes(c1.Default.text) \o <<"'">>
    ELSE c1.Default.text

\* The body of the loop of aColumns for column n of t1, on the table t built
\* so far: [err, t].
aColumn(dd, t1, t, n) ==
    LET c1  == t1.Columns[n]
        r   == atTypeC(dd, c1, NewColumn(c1))
        cid == Len(t.Columns) + 1
        c2d == IF c1.Default # Nil /\ supportDefault(c1)
               THEN [r.c2 EXCEPT !.Default = [k |-> "RawExpr", X |-> DefaultExpr(c1)]]
               ELSE r.c2
        tu  == IF c1.Unique THEN atUniqueC(t1, c1, t, cid) ELSE t
        c2i == IF c1.Increment THEN atIncrementC(c2d) ELSE c2d
    IN  IF r.err # Nil
        THEN [err |-> r.err, t |-> t]
        ELSE [err |-> Nil, t |-> [tu EXCEPT !.Columns = Append(@, c2i)]]

RECURSIVE aColumnsFrom(_, _, _, _)
aColumnsFrom(dd, t1, t, n) ==
    IF n > Len(t1.Columns) THEN [err |-> Nil, t |-> t]
    ELSE LET r == aColumn(dd, t1, t, n)
         IN  IF r.err # Nil THEN r ELSE aColumnsFrom(dd, t1, r.t, n + 1)

aColumns(dd, t1, t) == aColumnsFrom(dd, t1, t, 1)

(***************************************************************************)
(* MySQL.atIndex and Migrate.aIndexes.                                     *)
(***************************************************************************)
\* indexParts(idx1): the prefix lengths the index annotates, by column name.
indexParts(idx1) == idx1.Prefix

\* Positions in t of the named columns, 0 for a name t does not have.
Resolve(t, names) == [n \in 1..Len(names) |-> Column(t, names[n])]

\* The first name of the list that t does not have (the loop returns there).
FirstMissing(t, names) ==
    LET bad == {n \in 1..Len(names) : Column(t, names[n]) = 0}
    IN  IF bad = {} THEN 0 ELSE CHOOSE n \in bad : \A m \in bad : n <= m

IndexPart(prefix, name, cid) ==
    [C |-> cid,
     Attrs |-> IF name \in DOMAIN prefix
               THEN <<[k |-> "SubPart", Len |-> prefix[name]]>> ELSE <<>>]

\* [err, idx]: idx2 with one part per column of idx1.
atIndex(idx1, t, idx2) ==
    LET prefix == indexParts(idx1)
        miss   == FirstMissing(t, idx1.Columns)
    IN  IF miss # 0
        THEN [err |-> Error("index column", idx1.Name, idx1.Columns[miss]), idx |-> idx2]
        ELSE [err |-> Nil,
              idx |-> [idx2 EXCEPT !.Parts = @ \o
                         [n \in 1..Len(idx1.Columns) |->
                            IndexPart(prefix, idx1.Columns[n], Column(t, idx1.Columns[n]))]]]

NewIndex(idx1) == [Name |-> idx1.Name, Unique |-> idx1.Unique, Parts |-> <<>>]

RECURSIVE aIndexesFrom(_, _, _)
\* The loop of lines 127-134 from index n on.
aIndexesFrom(t1, t, n) ==
    IF n > Len(t1.Indexes) THEN [err |-> Nil, t |-> t]
    ELSE LET r == atIndex(t1.Indexes[n], t, NewIndex(t1.Indexes[n]))
         IN  IF r.err # Nil THEN [err |-> r.err, t |-> t]
             ELSE aIndexesFrom(t1, [t EXCEPT !.Indexes = Append(@, r.idx)], n + 1)

aIndexes(t1, t) ==
    LET miss == FirstMissing(t, t1.PrimaryKey)
    IN  IF miss # 0
        THEN [err |-> Error("primary-key column", <<>>, t1.PrimaryKey[miss]), t |-> t]
        ELSE aIndexesFrom(t1, [t EXCEPT !.PrimaryKey =
                                  [k |-> "Index", Parts |-> Resolve(t, t1.PrimaryKey)]], 1)

(***************************************************************************)
(* Migrate.aTables, first loop: pkRange and the start of an iteration.     *)
(***************************************************************************)
\* Migrate.pkRange(ctx, dialect, t1): what the database answers, [err, r].
pkRange(db, t1) == db[t1.Name]

\* StartTable attaching the answer of pkRange in either mode.
StartTableAlways(uid, db, t1) ==
    atIncrementT(atTable(t1, NewTable(t1.Name)), pkRange(db, t1).r)

\* Lines 30-38, after a pkRange that did not fail.
StartTable(uid, db, t1) ==
    LET t == atTable(t1, NewTable(t1.Name))
    IN  IF uid THEN atIncrementT(t, pkRange(db, t1).r) ELSE t

(***************************************************************************)
(* Migrate.aTables, second loop: the foreign keys of table n.              *)
(***************************************************************************)
\* RefTable falling back to the first table instead of reporting none.
RefTableOrFirst(tables, name) ==
    LET hit == {n \in 1..Len(tables) : tables[n].Name = name}
    IN  IF hit = {} THEN 1 ELSE CHOOSE n \in hit : \A m \in hit : n <= m

\* RefTable whose search starts at the second table.
RefTableFromSecond(tables, name) ==
    LET hit == {n \in 2..Len(tables) : tables[n].Name = name}
    IN  IF hit = {} THEN 0 ELSE CHOOSE n \in hit : \A m \in hit : n <= m

\* Lines 61-67: the first translated table of that name, 0 for none.
RefTable(tables, name) ==
    LET hit == {n \in 1..Len(tables) : tables[n].Name = name}
    IN  IF hit = {} THEN 0 ELSE CHOOSE n \in hit : \A m \in hit : n <= m

\* Lines 50-78 for one foreign key of table n: [err, fk].
aForeignKey(tables, n, fk1) ==
    LET t     == tables[n]
        missC == FirstMissing(t, fk1.Columns)
        ref   == RefTable(tables, fk1.RefTable)
        missR == IF ref = 0 THEN 0 ELSE FirstMissing(tables[ref], fk1.RefColumns)
    IN  IF missC # 0
        THEN [err |-> Error("fk column", fk1.Symbol, fk1.Columns[missC]), fk |-> Nil]
        ELSE IF ref = 0
        THEN [err |-> Error("fk ref-table", fk1.Symbol, fk1.RefTable), fk |-> Nil]
        ELSE IF missR # 0
        THEN [err |-> Error("fk ref-column", fk1.Symbol, fk1.RefColumns[missR]), fk |-> Nil]
        ELSE [err |-> Nil,
              fk  |-> [Symbol |-> fk1.Symbol, Table |-> n,
                       OnUpdate |-> fk1.OnUpdate, OnDelete |-> fk1.OnDelete,
                       Columns |-> Resolve(t, fk1.Columns),
                       RefTable |-> ref,
                       RefColumns |-> Resolve(tables[ref], fk1.RefColumns)]]

RECURSIVE aForeignKeysFrom(_, _, _, _)
\* Lines 49-80 for table n from its foreign key m on: [err, tables].
aForeignKeysFrom(tabs1, tables, n, m) ==
    IF m > Len(tabs1[n].ForeignKeys) THEN [err |-> Nil, tables |-> tables]
    ELSE LET r == aForeignKey(tables, n, tabs1[n].ForeignKeys[m])
         IN  IF r.err # Nil THEN [err |-> r.err, tables |-> tables]
             ELSE aForeignKeysFrom(tabs1,
                      [tables EXCEPT ![n].ForeignKeys = Append(@, r.fk)], n, m + 1)

aForeignKeys(tabs1, tables, n) == aForeignKeysFrom(tabs1, tables, n, 1)

(***************************************************************************)
(* Migrate.aTables as one function: [tables, err].                         *)
(***************************************************************************)
\* One iteration of the first loop (lines 30-45): [err, t].
BuildTable(dd, uid, db, t1) ==
    IF uid /\ pkRange(db, t1).err # Nil
    THEN [err |-> pkRange(db, t1).err, t |-> Nil]
    ELSE LET c == aColumns(dd, t1, StartTable(uid, db, t1))
         IN  IF c.err # Nil THEN c ELSE aIndexes(t1, c.t)

RECURSIVE FirstLoop(_, _, _, _, _, _)
FirstLoop(dd, uid, db, tabs1, tables, n) ==
    IF n > Len(tabs1) THEN [err |-> Nil, tables |-> tables]
    ELSE LET r == BuildTable(dd, uid, db, tabs1[n])
         IN  IF r.err # Nil THEN [err |-> r.err, tables |-> tables]
             ELSE FirstLoop(dd, uid, db, tabs1, [tables EXCEPT ![n] = r.t], n + 1)

RECURSIVE SecondLoop(_, _, _)
SecondLoop(tabs1, tables, n) ==
    IF n > Len(tabs1) THEN [err |-> Nil, tables |-> tables]
    ELSE LET r == aForeignKeys(tabs1, tables, n)
         IN  IF r.err # Nil THEN r ELSE SecondLoop(tabs1, r.tables, n + 1)

aTables(dd, uid, db, tabs1) ==
    LET p1 == FirstLoop(dd, uid, db, tabs1, [n \in 1..Len(tabs1) |-> Nil], 1)
        p2 == SecondLoop(tabs1, p1.tables, 1)
    IN  IF p1.err # Nil THEN [tables |-> Nil, err |-> p1.err]
        ELSE IF p2.err # Nil THEN [tables |-> Nil, err |-> p2.err]
        ELSE [tables |-> p2.tables, err |-> Nil]

(***************************************************************************)
(* Migrate.aTables step by step.                                           *)
(***************************************************************************)
Return(tables, err) ==
    /\ pc' = "done"
    /\ ret' = [tables |-> tables, err |-> err]

\* Lines 30-38: a new table, its attributes and, in universal-ID mode, its
\* primary-key range.
StartTableStep ==
    /\ pc = "table"
    /\ queries' = IF universalID THEN Append(queries, tables1[i].Name) ELSE queries
    /\ IF universalID /\ pkRange(pkRangeDB, tables1[i]).err # Nil
       THEN /\ Return(Nil, pkRange(pkRangeDB, tables1[i]).err)
            /\ UNCHANGED <<t2, j>>
       ELSE /\ t2' = StartTable(universalID, pkRangeDB, tables1[i])
            /\ j' = 1
            /\ pc' = "columns"
            /\ UNCHANGED ret
    /\ UNCHANGED <<tables1, d, universalID, pkRangeDB, tables2, i>>

\* Lines 86-111: one column of aColumns.
AColumnStep ==
    /\ pc = "columns"
    /\ j <= Len(tables1[i].Columns)
    /\ LET r == aColumn(d, tables1[i], t2, j)
       IN  IF r.err # Nil
           THEN /\ Return(Nil, r.err)
                /\ UNCHANGED <<t2, j>>
           ELSE /\ t2' = r.t
                /\ j' = j + 1
                /\ UNCHANGED <<pc, ret>>
    /\ UNCHANGED <<tables1, d, universalID, pkRangeDB, tables2, i, queries>>

\* Lines 42-46: aIndexes, and the table is stored.
AIndexesStep ==
    /\ pc = "columns"
    /\ j > Len(tables1[i].Columns)
    /\ LET r == aIndexes(tables1[i], t2)
       IN  IF r.err # Nil
           THEN /\ Return(Nil, r.err)
                /\ UNCHANGED <<tables2, t2, i>>
           ELSE /\ tables2' = [tables2 EXCEPT ![i] = r.t]
                /\ t2' = Nil
                /\ IF i < Len(tables1)
                   THEN /\ i' = i + 1
                        /\ pc' = "table"
                   ELSE /\ i' = 1
                        /\ pc' = "fks"
                /\ UNCHANGED ret
    /\ UNCHANGED <<tables1, d, universalID, pkRangeDB, j, queries>>

\* Lines 47-82: the foreign keys of one table, and the return after the last.
AForeignKeysStep ==
    /\ pc = "fks"
    /\ LET r == aForeignKeys(tables1, tables2, i)
       IN  IF r.err # Nil
           THEN /\ Return(Nil, r.err)
                /\ UNCHANGED <<tables2, i>>
           ELSE /\ tables2' = r.tables
                /\ IF i < Len(tables1)
                   THEN /\ i' = i + 1
                        /\ UNCHANGED <<pc, ret>>
                   ELSE /\ Return(r.tables, Nil)
                        /\ UNCHANGED i
    /\ UNCHANGED <<tables1, d, universalID, pkRangeDB, t2, j, queries>>

Next ==
    \/ StartTableStep
    \/ AColumnStep
    \/ AIndexesStep
    \/ AForeignKeysStep

\* The state aTables starts in, given its inputs.
Start(tabs1, dd, uid, db) ==
    /\ tables1 = tabs1
    /\ d = dd
    /\ universalID = uid
    /\ pkRangeDB = db
    /\ tables2 = [n \in 1..Len(tabs1) |-> Nil]
    /\ t2 = Nil
    /\ pc = "table"
    /\ i = 1
    /\ j = 1
    /\ queries = <<>>
    /\ ret = Nil

(***************************************************************************)
(* Inputs.                                                                 *)
(***************************************************************************)
MaxTables == 2

MaxIndexes == 2

MaxNameLen == 3

\* Sequences over S of length at most n.
SeqsUpTo(S, n) == UNION {[1..m -> S] : m \in 0..n}

\* A column as the schema package builds it: everything but name and type zero.
Col(name, type) ==
    [Name |-> name, Type |-> type, Size |-> Zero64, Nullable |-> FALSE,
     Unique |-> FALSE, Increment |-> FALSE, Default |-> Nil, SchemaType |-> "",
     Collation |-> "", Attr |-> "", Enums |-> <<>>, typ |-> "",
     defaultSupported |-> TRUE]

Tab(name, columns, pk, indexes, fks) ==
    [Name |-> name, Columns |-> columns, PrimaryKey |-> pk, Indexes |-> indexes,
     ForeignKeys |-> fks, Annotation |-> Nil]

Idx(name, unique, columns) ==
    [Name |-> name, Unique |-> unique, Columns |-> columns, Prefix |-> <<>>]

MySQL8 == [version |-> <<8, 0, 19>>, maria |-> FALSE, defaultSize |-> I64(0, 255)]

NoDB == [n \in {} |-> Nil]

ID == <<"i", "d">>

A == <<"a">>

B == <<"b">>

IDColumn == [Col(ID, "TypeInt") EXCEPT !.Increment = TRUE]

\* --- Table sets with foreign keys --------------------------------------
TableNames == {<<"t", "1">>, <<"t", "2">>, <<"t", "3">>}

\* A table name no input table has.
Ghost == <<"t", "0">>

FK(owner, ref) ==
    [Symbol |-> owner \o <<"_">> \o ref, Columns |-> <<B>>, RefTable |-> ref,
     RefColumns |-> <<ID>>, OnUpdate |-> "", OnDelete |-> "CASCADE"]

\* The foreign-key lists of a table: none, one to any table name (its own
\* included) or to the ghost, or two.
FKLists(owner) ==
    {<<>>}
    \cup {<<FK(owner, r)>> : r \in TableNames \cup {Ghost}}
    \cup {<<FK(owner, <<"t", "1">>), FK(owner, <<"t", "2">>)>>}

\* id and b.
BodyIDB ==
    [Columns |-> <<IDColumn, [Col(B, "TypeInt") EXCEPT !.Nullable = TRUE]>>,
     PrimaryKey |-> <<ID>>, Indexes |-> <<>>]

\* b first, a and b unique, id last, two explicit indexes.
BodyBAID ==
    [Columns |-> <<[Col(B, "TypeInt") EXCEPT !.Unique = TRUE],
                   [Col(A, "TypeString") EXCEPT !.Unique = TRUE], IDColumn>>,
     PrimaryKey |-> <<ID>>,
     Indexes |-> <<Idx(<<"a", "_", "b">>, FALSE, <<A, B>>),
                   [Idx(<<"b", "_", "a">>, TRUE, <<B, A>>) EXCEPT !.Prefix = (A :> 8)]>>]

\* No column b.
BodyID == [Columns |-> <<IDColumn>>, PrimaryKey |-> <<ID>>, Indexes |-> <<>>]

\* No column id.
BodyB == [Columns |-> <<Col(B, "TypeInt")>>, PrimaryKey |-> <<>>, Indexes |-> <<>>]

\* A column whose type override does not parse.
BodyBadType ==
    [Columns |-> <<IDColumn, Col(B, "TypeInt"),
                   [Col(A, "TypeOther") EXCEPT !.SchemaType = "VARCHAR(X)"]>>,
     PrimaryKey |-> <<ID>>, Indexes |-> <<>>]

\* The tables of a name: the two full shapes with every foreign-key list, the
\* others with none and with one foreign key to the first table.
TablesNamed(name) ==
    {Tab(name, b.Columns, b.PrimaryKey, b.Indexes, fks) :
        b \in {BodyIDB, BodyBAID}, fks \in FKLists(name)}
    \cup {Tab(name, b.Columns, b.PrimaryKey, b.Indexes, fks) :
        b \in {BodyID, BodyB, BodyBadType},
        fks \in {<<>>, <<FK(name, <<"t", "1">>)>>}}

DistinctNameSeqs ==
    {ns \in SeqsUpTo(TableNames, MaxTables) :
        /\ Len(ns) >= 1
        /\ \A m, n \in 1..Len(ns) : m # n => ns[m] # ns[n]}

\* --- Universal-ID mode ---------------------------------------------------
\* What the database may answer to pkRange for a table.
PKAnswers ==
    {[err |-> Nil, r |-> Zero64],
     [err |-> Nil, r |-> I64(65536, 0)],
     [err |-> Error("database", <<>>, <<>>), r |-> Zero64]}

\* A table annotation: charset, create options and two named checks.
Annotated ==
    [Charset |-> "latin1", Collation |-> "", Options |-> "ENGINE = INNODB",
     Check |-> "", Checks |-> (B :> "b > 0") @@ (A :> "a > 0")]

UniversalTables(name) ==
    {[Tab(name, BodyIDB.Columns, BodyIDB.PrimaryKey, BodyIDB.Indexes, fks)
         EXCEPT !.Annotation = Annotated] :
        fks \in {<<>>, <<FK(name, <<"t", "1">>)>>}}

AllTables == UNION {TablesNamed(n) : n \in TableNames}

AllUniversalTables == UNION {UniversalTables(n) : n \in TableNames}

\* The list of tables carries the given names, in order.
Named(tabs1, ns) == \A n \in 1..Len(ns) : tabs1[n].Name = ns[n]

Init ==
    \E ns \in DistinctNameSeqs :
        \/ \E tabs1 \in [1..Len(ns) -> AllTables] :
              /\ Named(tabs1, ns)
              /\ Start(tabs1, MySQL8, FALSE, NoDB)
        \/ \E tabs1 \in [1..Len(ns) -> AllUniversalTables], db \in [TableNames -> PKAnswers] :
              /\ Named(tabs1, ns)
              /\ Start(tabs1, MySQL8, TRUE, db)

Spec == Init /\ [][Next]_vars

\* --- One table, unique columns and explicit indexes -----------------------
T1 == <<"t", "1">>

IndexNames == {A, <<"a", "_", "2">>, <<"a", "_", "a", "2">>, B}

IndexSet ==
    {Idx(n, u, cs) : n \in IndexNames, u \in BOOLEAN, cs \in {<<A>>, <<B>>, <<A, B>>}}

IndexedTable(st, ub, idxs) ==
    Tab(T1,
        <<IDColumn,
          [Col(A, "TypeString") EXCEPT !.Unique = TRUE, !.SchemaType = st],
          [Col(B, "TypeInt") EXCEPT !.Unique = ub]>>,
        <<ID>>, idxs, <<>>)

InitIdx ==
    \E st \in {"", "Text"}, ub \in BOOLEAN, idxs \in SeqsUpTo(IndexSet, MaxIndexes) :
        Start(<<IndexedTable(st, ub, idxs)>>, MySQL8, FALSE, NoDB)

SpecIdx == InitIdx /\ [][Next]_vars

\* --- One table, one unique column, one unique index, names varying --------
NameChars == {"c", "_", "1", "2"}

NonEmpty(S) == S \ {<<>>}

ColumnNames == NonEmpty(SeqsUpTo(NameChars, MaxNameLen))

\* The index names tried against column name c: c itself extended by up to
\* MaxNameLen characters, and every short name.
IndexNamesFor(c) ==
    {c \o x : x \in SeqsUpTo(NameChars, MaxNameLen)}
    \cup NonEmpty(SeqsUpTo(NameChars, 2))

InitNames ==
    \E c \in ColumnNames :
        \E n \in IndexNamesFor(c) :
            Start(<<Tab(T1, <<[Col(c, "TypeInt") EXCEPT !.Unique = TRUE]>>, <<>>,
                        <<Idx(n, TRUE, <<c>>)>>, <<>>)>>, MySQL8, FALSE, NoDB)

SpecNames == InitNames /\ [][Next]_vars

\* --- One table, column types and dialects varying ------------------------
Dialects ==
    {[version |-> v, maria |-> FALSE, defaultSize |-> I64(0, 255)] :
        v \in {<<5, 6, 35>>, <<5, 7, 8>>, <<8, 0, 1>>, <<8, 0, 2>>, <<8, 0, 19>>}}
    \cup {[version |-> v, maria |-> TRUE, defaultSize |-> I64(0, 255)] :
        v \in {<<5, 5, 60>>, <<10, 5, 8>>}}

AllTypes == KnownTypes \cup {"TypeOther", "TypeInvalid"}

\* Sizes on both sides of every threshold of the code.
Sizes ==
    {I64(-1, 65535), Zero64, I64(0, 1), I64(0, 255), I64(0, 256), I64(0, 65535),
     I64(1, 0), I64(255, 65535), I64(256, 0), I64(65535, 65535), I64(65536, 0),
     I64(65536, 1)}

DefaultNow == [kind |-> "other", text |-> <<"n", "o", "w", "(", ")">>]

DefaultString == [kind |-> "string", text |-> <<"o", "'", "k">>]

TimeColumns ==
    {[Col(A, "TypeTime") EXCEPT !.Nullable = n, !.Default = df, !.Attr = at,
                                !.typ = ty, !.SchemaType = st] :
        n \in BOOLEAN, df \in {Nil, DefaultNow},
        at \in {"", "ON UPDATE CURRENT_TIMESTAMP"},
        ty \in {"", "datetime"}, st \in {"", "BIGINT", "VARCHAR(X)"}}

SizedColumns ==
    {[Col(A, ty) EXCEPT !.Size = sz, !.SchemaType = st] :
        ty \in {"TypeBytes", "TypeString"}, sz \in Sizes, st \in {"", "BIGINT"}}

TypedColumns ==
    {[Col(A, ty) EXCEPT !.typ = raw, !.SchemaType = st, !.Nullable = n,
                        !.Default = df,
                        !.Enums = IF ty = "TypeEnum" THEN <<"on", "off">> ELSE <<>>] :
        ty \in AllTypes, raw \in {"", "text", "point", "varchar(x)"},
        st \in {"", "BIGINT", "Text", "VARCHAR(X)"}, n \in BOOLEAN,
        df \in {Nil, DefaultString}}

InitTypeC ==
    \E c \in TimeColumns \cup SizedColumns \cup TypedColumns, dd \in Dialects :
        Start(<<Tab(T1, <<IDColumn, c>>, <<ID>>, <<>>, <<>>)>>, dd, FALSE, NoDB)

SpecTypeC == InitTypeC /\ [][Next]_vars

\* --- One table, one column, its default varying ---------------------------
MaxDefaultLen == 3

DefaultChars == {"'", "x"}

\* A default value: kind "string" when the Go value is a string, text being
\* the string; any other kind of value with text what fmt.Sprint prints.
Defaults ==
    {Nil} \cup {[kind |-> k, text |-> x] :
                   k \in {"string", "other"}, x \in SeqsUpTo(DefaultChars, MaxDefaultLen)}

InitDefault ==
    \E ty \in {"TypeString", "TypeInt", "TypeEnum", "TypeUUID", "TypeTime", "TypeOther"},
       raw \in {"", "point"}, df \in Defaults, sup \in BOOLEAN :
        Start(<<Tab(T1, <<IDColumn,
                          [Col(A, ty) EXCEPT !.Default = df, !.typ = raw,
                                             !.defaultSupported = sup]>>,
                    <<ID>>, <<>>, <<>>)>>, MySQL8, FALSE, NoDB)

SpecDefault == InitDefault /\ [][Next]_vars

\* --- Universal-ID mode on and off, any step of the first loop failing ------
\* What the database answers to pkRange for the table of that name: a range
\* start, or an error of its own.
PKAnswer(how, name) ==
    CASE how = "zero" -> [err |-> Nil, r |-> Zero64]
      [] how = "high" -> [err |-> Nil, r |-> I64(65536, 0)]
      [] OTHER -> [err |-> Error("database", <<>>, name), r |-> Zero64]

\* The tables of a name: one that translates, one whose third column has a
\* type override that does not parse, one whose primary key names no column,
\* one with a foreign key to a table that is not there.
UIDTables(name) ==
    {[Tab(name, BodyIDB.Columns, BodyIDB.PrimaryKey, BodyIDB.Indexes, <<>>)
         EXCEPT !.Annotation = Annotated],
     Tab(name, BodyBadType.Columns, BodyBadType.PrimaryKey, BodyBadType.Indexes, <<>>),
     Tab(name, BodyB.Columns, <<ID>>, BodyB.Indexes, <<>>),
     Tab(name, BodyIDB.Columns, BodyIDB.PrimaryKey, BodyIDB.Indexes, <<FK(name, Ghost)>>)}

AllUIDTables == UNION {UIDTables(n) : n \in TableNames}

InitUID ==
    \E ns \in DistinctNameSeqs :
        \E tabs1 \in [1..Len(ns) -> AllUIDTables],
           how \in [TableNames -> {"zero", "high", "fail"}], uid \in BOOLEAN :
            /\ Named(tabs1, ns)
            /\ Start(tabs1, MySQL8, uid, [n \in TableNames |-> PKAnswer(how[n], n)])

SpecUID == InitUID /\ [][Next]_vars

\* The run of the steps ends with what the function returns.
StepsAgree == pc = "done" => ret = aTables(d, universalID, pkRangeDB, tables1)

(***************************************************************************)
(* Vocabulary of the properties, stated on the input tables.               *)
(***************************************************************************)
Done == pc = "done"

Succeeded == Done /\ ret.err = Nil

\* The first loop stored every table.
FirstLoopDone == \A n \in 1..Len(tables1) : tables2[n] # Nil

ColNames(t1) == [n \in 1..Len(t1.Columns) |-> t1.Columns[n].Name]

HasColumn(t1, name) == \E n \in 1..Len(t1.Columns) : t1.Columns[n].Name = name

\* The names of the columns of translated table t at the given positions.
NamesAt(t, ids) == [n \in 1..Len(ids) |-> t.Columns[ids[n]].Name]

InputNames == {tables1[n].Name : n \in 1..Len(tables1)}

\* The positions (table, foreign key) of the input's foreign keys.
FKPositions ==
    UNION {{<<n, m>> : m \in 1..Len(tables1[n].ForeignKeys)} : n \in 1..Len(tables1)}

FKAt(p) == tables1[p[1]].ForeignKeys[p[2]]

Dangling(p) == FKAt(p).RefTable \notin InputNames

\* The input table of a name.
InputTable(name) == CHOOSE t \in {tables1[n] : n \in 1..Len(tables1)} : t.Name = name

LocalColumnsExist(p) ==
    \A n \in 1..Len(FKAt(p).Columns) : HasColumn(tables1[p[1]], FKAt(p).Columns[n])

\* The foreign key references a table of the input and columns that exist.
Resolvable(p) ==
    /\ ~Dangling(p)
    /\ LocalColumnsExist(p)
    /\ \A n \in 1..Len(FKAt(p).RefColumns) :
          HasColumn(InputTable(FKAt(p).RefTable), FKAt(p).RefColumns[n])

Before(q, p) == q[1] < p[1] \/ (q[1] = p[1] /\ q[2] < p[2])

(***************************************************************************)
(* C1                                                                      *)
(***************************************************************************)
\* C1 as claimed: whenever some foreign key references a table that is not in
\* the input, aTables returns no tables and an error naming that table.
C1_AsClaimed ==
    Done => \A p \in FKPositions :
        Dangling(p) =>
            /\ ret.tables = Nil
            /\ ret.err = Error("fk ref-table", FKAt(p).Symbol, FKAt(p).RefTable)

\* C1 amended: whenever some foreign key references a table that is not in
\* the input, aTables fails and returns no tables; the error names that
\* foreign key's referenced table when nothing fails before it: the first
\* loop succeeded, every foreign key before it resolves and its own local
\* columns exist.
C1_DanglingFails ==
    Done => \A p \in FKPositions :
        Dangling(p) =>
            /\ ret.tables = Nil
            /\ ret.err # Nil
            /\ (/\ FirstLoopDone
                /\ LocalColumnsExist(p)
                /\ \A q \in FKPositions : Before(q, p) => Resolvable(q))
               => ret.err = Error("fk ref-table", FKAt(p).Symbol, FKAt(p).RefTable)

\* A run that failed on a dangling foreign key of the second table, every
\* other foreign key being valid.
C1_Witness ==
    /\ Done
    /\ Len(tables1) = 2
    /\ \E p \in FKPositions :
          /\ p[1] = 2
          /\ Dangling(p)
          /\ \A q \in FKPositions \ {p} : Resolvable(q)
          /\ tables1[1].ForeignKeys # <<>>
          /\ ret.tables = Nil
          /\ ret.err = Error("fk ref-table", FKAt(p).Symbol, FKAt(p).RefTable)

(***************************************************************************)
(* C5                                                                      *)
(***************************************************************************)
\* The permutations of 1..n: position q of the permuted list holds what was
\* at position p[q].
Perms(n) == {p \in [1..n -> 1..n] : \A a, b \in 1..n : a # b => p[a] # p[b]}

PosAfter(p, old) == CHOOSE q \in DOMAIN p : p[q] = old

Permuted(seq, p) == [q \in DOMAIN p |-> seq[p[q]]]

\* The translated tables moved the same way, pointers to tables following.
PermutedResult(tables, p) ==
    [q \in DOMAIN p |->
        [tables[p[q]] EXCEPT !.ForeignKeys =
            [m \in DOMAIN @ |->
                [@[m] EXCEPT !.Table = PosAfter(p, @), !.RefTable = PosAfter(p, @)]]]]

\* Translated foreign key fk2 of table n is input foreign key fk1, resolved.
Wired(tables, n, fk1, fk2) ==
    /\ fk2.Symbol = fk1.Symbol
    /\ fk2.Table = n
    /\ fk2.RefTable \in 1..Len(tables)
    /\ tables[fk2.RefTable].Name = fk1.RefTable
    /\ NamesAt(tables[n], fk2.Columns) = fk1.Columns
    /\ NamesAt(tables[fk2.RefTable], fk2.RefColumns) = fk1.RefColumns

AllWired(tables) ==
    \A n \in 1..Len(tables1) :
        /\ Len(tables[n].ForeignKeys) = Len(tables1[n].ForeignKeys)
        /\ \A m \in 1..Len(tables1[n].ForeignKeys) :
              Wired(tables, n, tables1[n].ForeignKeys[m], tables[n].ForeignKeys[m])

OrderIndependent ==
    \A p \in Perms(Len(tables1)) :
        aTables(d, universalID, pkRangeDB, Permuted(tables1, p))
            = [tables |-> PermutedResult(ret.tables, p), err |-> Nil]

\* C5 as claimed: for every table set whose foreign keys reference only
\* tables and columns of the set, aTables succeeds, every foreign key is
\* wired to the translated tables and columns of those names, and permuting
\* the input permutes the result and changes nothing else.
C5_AsClaimed ==
    (Done /\ \A p \in FKPositions : Resolvable(p)) =>
        /\ ret.err = Nil
        /\ AllWired(ret.tables)
        /\ OrderIndependent

\* C5 amended: the same, for every such table set whose first loop succeeds
\* (every column type translates, every primary-key and index column exists).
C5_OrderIndependent ==
    (Done /\ FirstLoopDone /\ \A p \in FKPositions : Resolvable(p)) =>
        /\ ret.err = Nil
        /\ AllWired(ret.tables)
        /\ OrderIndependent

\* A successful run in which the first table references the second, the
\* second itself and the first.
C5_Witness ==
    /\ Succeeded
    /\ Len(tables1) = 2
    /\ \E m \in 1..Len(tables1[1].ForeignKeys) :
          tables1[1].ForeignKeys[m].RefTable = tables1[2].Name
    /\ Len(ret.tables[2].ForeignKeys) = 2
    /\ {ret.tables[2].ForeignKeys[m].RefTable : m \in 1..2} = {1, 2}
    /\ ret.tables[1].Columns # ret.tables[2].Columns

(***************************************************************************)
(* C6                                                                      *)
(***************************************************************************)
\* The index list of translated table t of input t1: first the implicit
\* indexes, each on one unique column, in column order, then the explicit
\* indexes in input order.
IndexesInOrder(t1, t) ==
    LET k == Len(t.Indexes) - Len(t1.Indexes)
    IN  /\ k >= 0
        /\ \A m \in 1..k :
              /\ t.Indexes[m].Unique
              /\ Len(t.Indexes[m].Parts) = 1
              /\ t1.Columns[t.Indexes[m].Parts[1].C].Unique
              /\ t1.Columns[t.Indexes[m].Parts[1].C].Name = t.Indexes[m].Name
              /\ \A l \in 1..(m - 1) : t.Indexes[l].Parts[1].C < t.Indexes[m].Parts[1].C
        /\ \A m \in 1..Len(t1.Indexes) :
              /\ t.Indexes[k + m].Name = t1.Indexes[m].Name
              /\ t.Indexes[k + m].Unique = t1.Indexes[m].Unique
              /\ NamesAt(t, [n \in 1..Len(t.Indexes[k + m].Parts) |->
                                t.Indexes[k + m].Parts[n].C]) = t1.Indexes[m].Columns

InInputOrder(t1, t) ==
    /\ t.Name = t1.Name
    /\ NamesAt(t, [n \in 1..Len(t.Columns) |-> n]) = ColNames(t1)
    /\ IndexesInOrder(t1, t)
    /\ t.PrimaryKey # Nil
    /\ NamesAt(t, t.PrimaryKey.Parts) = t1.PrimaryKey

\* C6: result table i is the translation of input table i, with the input's
\* columns in order, the implicit indexes in column order before the explicit
\* indexes in input order, and the primary-key columns in input order; and no
\* table carries a foreign key before every table has been built.
C6_FixedOrder ==
    /\ Succeeded =>
          /\ Len(ret.tables) = Len(tables1)
          /\ \A n \in 1..Len(tables1) : InInputOrder(tables1[n], ret.tables[n])
    /\ \A n \in 1..Len(tables1) :
          /\ (tables2[n] # Nil /\ tables2[n].ForeignKeys # <<>>) =>
                /\ pc \in {"fks", "done"}
                /\ \A m \in 1..Len(tables1) :
                      tables2[m] # Nil /\ InInputOrder(tables1[m], tables2[m])
    /\ t2 # Nil => t2.ForeignKeys = <<>>

\* A successful run over two tables, the second with two implicit and two
\* explicit indexes, the first with a foreign key to the second.
C6_Witness ==
    /\ Succeeded
    /\ Len(tables1) = 2
    /\ Len(ret.tables[2].Indexes) = 4
    /\ Len(tables1[2].Indexes) = 2
    /\ ret.tables[1].ForeignKeys # <<>>
    /\ ret.tables[1].ForeignKeys[1].RefTable = 2

(***************************************************************************)
(* C3                                                                      *)
(***************************************************************************)
\* The naming convention as documented: the column name, or the column name,
\* "_" and a decimal integer of at least 2.
IsImplicitName(name, col) ==
    \/ name = col
    \/ /\ HasPrefix(name, col \o <<"_">>)
       /\ LET suffix == SubSeq(name, Len(col) + 2, Len(name))
          IN  /\ suffix # <<>>
              /\ \A n \in 1..Len(suffix) : suffix[n] \in Digits
              /\ DecimalValue(suffix) >= 2

\* C3: atImplicitIndexName(idx, c) is true exactly when idx.Name is c.Name or
\* c.Name followed by "_" and a decimal integer N >= 2.
C3_AsClaimed ==
    \A t1 \in {tables1[n] : n \in 1..Len(tables1)} :
        \A n \in 1..Len(t1.Columns), m \in 1..Len(t1.Indexes) :
            atImplicitIndexName(t1.Indexes[m], t1.Columns[n])
                <=> IsImplicitName(t1.Indexes[m].Name, t1.Columns[n].Name)

(***************************************************************************)
(* C2 and C4                                                               *)
(***************************************************************************)
\* The implicit indexes of translated table t of input t1: those before the
\* explicit ones.
ImplicitIndexes(t1, t) == SubSeq(t.Indexes, 1, Len(t.Indexes) - Len(t1.Indexes))

\* The implicit indexes of t that are the one of column n: unique, named
\* after it, on that column alone.
ImplicitFor(t1, t, n) ==
    {m \in 1..Len(ImplicitIndexes(t1, t)) :
        /\ t.Indexes[m].Unique
        /\ t.Indexes[m].Name = t1.Columns[n].Name
        /\ t.Indexes[m].Parts = <<[C |-> n, Attrs |-> <<>>]>>}

\* An explicit index of t1 carries a name of the implicit form for column n.
NamedLikeImplicit(t1, n) ==
    \E m \in 1..Len(t1.Indexes) : IsImplicitName(t1.Indexes[m].Name, t1.Columns[n].Name)

\* An explicit unique index of t1 covers exactly column n under a name of
\* the implicit form.
ExplicitMatch(t1, n) ==
    \E m \in 1..Len(t1.Indexes) :
        /\ t1.Indexes[m].Unique
        /\ t1.Indexes[m].Columns = <<t1.Columns[n].Name>>
        /\ IsImplicitName(t1.Indexes[m].Name, t1.Columns[n].Name)

\* C2: every unique column for which the table has no explicit index of a
\* matching name gets exactly one implicit index, unique, named after the
\* column, on that column alone; the implicit indexes of two unique columns
\* have different names. (The weakest reading of "matching": by name only.)
C2_AsClaimed ==
    Succeeded => \A n \in 1..Len(tables1) :
        LET t1 == tables1[n]
            t  == ret.tables[n]
        IN  /\ \A c \in 1..Len(t1.Columns) :
                  (t1.Columns[c].Unique /\ ~NamedLikeImplicit(t1, c)) =>
                      Cardinality(ImplicitFor(t1, t, c)) = 1
            /\ \A l, m \in 1..Len(ImplicitIndexes(t1, t)) :
                  l # m => t.Indexes[l].Name # t.Indexes[m].Name

\* C4: after a successful translation every unique column has a unique index
\* on exactly that column, and its implicit index is missing only when an
\* explicit unique index on exactly that column has a matching name.
C4_AsClaimed ==
    Succeeded => \A n \in 1..Len(tables1) :
        LET t1 == tables1[n]
            t  == ret.tables[n]
        IN  \A c \in 1..Len(t1.Columns) :
                t1.Columns[c].Unique =>
                    /\ \E m \in 1..Len(t.Indexes) :
                          /\ t.Indexes[m].Unique
                          /\ Len(t.Indexes[m].Parts) = 1
                          /\ t.Indexes[m].Parts[1].C = c
                    /\ ImplicitFor(t1, t, c) = {} => ExplicitMatch(t1, c)

(***************************************************************************)
(* C7 - C10: the column translated from column n of the only table.        *)
(***************************************************************************)
OlderThan802(dd) == dd.maria \/ compareVersions(dd.version, <<8, 0, 2>>) = -1

\* C7: a time column without type override is forced nullable on MariaDB and
\* on MySQL before 8.0.2 when it has no default and an empty Attr; in every
\* other case it keeps its declared Nullable flag.
C7_AsClaimed ==
    Succeeded => \A n \in 1..Len(tables1[1].Columns) :
        LET c1 == tables1[1].Columns[n]
            c2 == ret.tables[1].Columns[n]
        IN  (c1.Type = "TypeTime" /\ c1.SchemaType = "") =>
                c2.Null = IF OlderThan802(d) /\ c1.Default = Nil /\ c1.Attr = ""
                          THEN TRUE ELSE c1.Nullable

\* C8: a column of no known type and without type override gets exactly the
\* type its raw type string parses to, and aTables returns the parse error
\* when it does not parse.
C8_AsClaimed ==
    Done => \A n \in 1..Len(tables1[1].Columns) :
        LET c1 == tables1[1].Columns[n]
        IN  (c1.Type \notin KnownTypes /\ c1.SchemaType = "") =>
                IF ParseType(c1.typ).err = Nil
                THEN /\ ret.err = Nil
                     /\ ret.tables[1].Columns[n].Type = ParseType(c1.typ).t
                ELSE ret = [tables |-> Nil, err |-> ParseType(c1.typ).err]

\* The tiers, smallest first.
TierRank(t) ==
    CASE t.T = "tinyblob" -> 1 [] t.T = "blob" -> 2 [] t.T = "mediumblob" -> 3
      [] t.T = "longblob" -> 4

\* The tier the claim gives a size of 1..2^32-1, and an unspecified size.
ClaimedTier(size) ==
    IF Le64(size, Zero64) THEN "blob"
    ELSE IF Lt64(size, I64(0, 256)) THEN "tinyblob"
    ELSE IF Lt64(size, I64(1, 0)) THEN "blob"
    ELSE IF Lt64(size, I64(256, 0)) THEN "mediumblob"
    ELSE "longblob"

Specified(size) == Lt64(Zero64, size) /\ Lt64(size, I64(65536, 0))

\* C9: a bytes column without type override gets tinyblob for a Size of
\* 1..2^8-1, blob for 2^8..2^16-1, mediumblob for 2^16..2^24-1, longblob for
\* 2^24..2^32-1 and blob for an unspecified Size (0 or negative); among the
\* specified sizes a larger Size never selects a smaller tier.
C9_BlobTiers ==
    Succeeded => \A n \in 1..Len(tables1[1].Columns) :
        LET c1 == tables1[1].Columns[n]
            c2 == ret.tables[1].Columns[n]
        IN  (/\ c1.Type = "TypeBytes"
             /\ c1.SchemaType = ""
             /\ Le64(c1.Size, Zero64) \/ Specified(c1.Size)) =>
                /\ c2.Type = [k |-> "BinaryType", T |-> ClaimedTier(c1.Size)]
                /\ \A larger \in {sz \in Sizes : Specified(sz) /\ Lt64(c1.Size, sz)} :
                      Specified(c1.Size) =>
                          TierRank(c2.Type) <=
                          TierRank(atTypeC(d, [c1 EXCEPT !.Size = larger], NewColumn(c1)).c2.Type)

\* A bytes column of 2^16 bytes was translated.
C9_Witness ==
    /\ Succeeded
    /\ \E n \in 1..Len(tables1[1].Columns) :
          /\ tables1[1].Columns[n].Type = "TypeBytes"
          /\ tables1[1].Columns[n].SchemaType = ""
          /\ tables1[1].Columns[n].Size = I64(1, 0)
          /\ ret.tables[1].Columns[n].Type.T = "mediumblob"

\* The columns that differ from c1 in what the claim says the override
\* ignores: abstract type, size, enum values and raw type.
Variants(c1) ==
    {[c1 EXCEPT !.Type = ty, !.Size = sz, !.Enums = en, !.typ = raw] :
        ty \in {"TypeTime", "TypeUUID", "TypeBytes", "TypeOther", "TypeString"},
        sz \in {Zero64, I64(65536, 0)}, en \in {<<>>, <<"on">>},
        raw \in {"", "varchar(x)", "text"}}

\* C10: with a non-empty MySQL SchemaType the translated type is the parse of
\* the lower-cased override, whatever the column's abstract type, size, enum
\* values, raw type and the server version, and nothing else of the
\* translated column is changed; when the override does not parse, the parse
\* error is returned and the column is not added to the table.
C10_OverrideOnly ==
    Done => \A n \in 1..Len(tables1[1].Columns) :
        LET c1 == tables1[1].Columns[n]
            p  == ParseType(ToLower(c1.SchemaType))
        IN  c1.SchemaType # "" =>
                IF p.err = Nil
                THEN /\ ret.err = Nil
                     /\ ret.tables[1].Columns[n].Type = p.t
                     /\ ret.tables[1].Columns[n].Null = c1.Nullable
                     /\ ret.tables[1].Columns[n].Collation = c1.Collation
                     /\ \A v \in Variants(c1), dd \in Dialects :
                           atTypeC(dd, v, NewColumn(c1)) =
                               [err |-> Nil, c2 |-> [NewColumn(c1) EXCEPT !.Type = p.t]]
                ELSE /\ ret = [tables |-> Nil, err |-> p.err]
                     /\ Len(t2.Columns) = n - 1
                     /\ \A v \in Variants(c1), dd \in Dialects :
                           atTypeC(dd, v, NewColumn(c1)) = [err |-> p.err, c2 |-> NewColumn(c1)]

\* A time column, not nullable, without default and with an upper-case
\* override was translated on a server older than 8.0.2 and stayed not
\* nullable.
C10_Witness ==
    /\ Succeeded
    /\ OlderThan802(d)
    /\ \E n \in 1..Len(tables1[1].Columns) :
          /\ tables1[1].Columns[n].Type = "TypeTime"
          /\ tables1[1].Columns[n].SchemaType = "BIGINT"
          /\ tables1[1].Columns[n].Default = Nil
          /\ tables1[1].Columns[n].Attr = ""
          /\ ret.tables[1].Columns[n].Type.T = "bigint"
          /\ ~tables1[1].Columns[n].Nullable
          /\ ~ret.tables[1].Columns[n].Null

\* Every input column already translated with its translation: those of the
\* table under construction and those of the stored tables.
TranslatedPairs ==
    (IF t2 = Nil THEN {}
     ELSE {<<tables1[i].Columns[n], t2.Columns[n]>> : n \in 1..Len(t2.Columns)})
    \cup UNION {{<<tables1[m].Columns[n], tables2[m].Columns[n]>> :
                    n \in 1..Len(tables2[m].Columns)} :
                 m \in {m \in 1..Len(tables2) : tables2[m] # Nil}}

RECURSIVE Undouble(_)
\* s with every pair of single quotes, read from the left, made one quote.
Undouble(s) ==
    IF s = <<>> THEN <<>>
    ELSE IF Len(s) >= 2 /\ s[1] = "'" /\ s[2] = "'"
    THEN <<"'">> \o Undouble(Tail(Tail(s)))
    ELSE <<Head(s)>> \o Undouble(Tail(s))

RECURSIVE QuotesPaired(_)
\* Read from the left, every single quote of s is followed by its pair.
QuotesPaired(s) ==
    IF s = <<>> THEN TRUE
    ELSE IF Head(s) # "'" THEN QuotesPaired(Tail(s))
    ELSE Len(s) >= 2 /\ s[2] = "'" /\ QuotesPaired(Tail(Tail(s)))

\* x is wrapped in a pair of single quotes.
Wrapped(x) == Len(x) >= 2 /\ x[1] = "'" /\ x[Len(x)] = "'"

\* x without its first and last character.
Inner(x) == SubSeq(x, 2, Len(x) - 1)

\* C11: a translated column whose default is not nil and is supported by the
\* database carries a default expression: for a string default on a column
\* that is neither UUID nor time, the string in single quotes with every
\* quote inside doubled (stripping the outer pair and un-doubling gives the
\* string back, and no quote of the body is unpaired); for a UUID or time
\* column, or a default that is not a string, the default as printed, with
\* no quote added. A column with a nil default carries no default expression.
C11_DefaultRendered ==
    \A p \in TranslatedPairs :
        LET c1 == p[1]
            c2 == p[2]
        IN  /\ c1.Default = Nil => c2.Default = Nil
            /\ (c1.Default # Nil /\ supportDefault(c1)) =>
                  /\ c2.Default # Nil
                  /\ IF c1.Default.kind = "string" /\ c1.Type \notin {"TypeUUID", "TypeTime"}
                     THEN /\ Wrapped(c2.Default.X)
                          /\ QuotesPaired(Inner(c2.Default.X))
                          /\ Undouble(Inner(c2.Default.X)) = c1.Default.text
                     ELSE c2.Default.X = c1.Default.text

\* A string column whose default x'' was rendered as 'x''''' has been
\* translated.
C11_Witness ==
    \E p \in TranslatedPairs :
        /\ p[1].Type = "TypeString"
        /\ p[1].Default = [kind |-> "string", text |-> <<"x", "'", "'">>]
        /\ supportDefault(p[1])
        /\ p[2].Default.X = <<"'", "x", "'", "'", "'", "'", "'">>

\* The names of the first k input tables, in input order.
NamesUpTo(k) == [n \in 1..k |-> tables1[n].Name]

\* The database answers the query for input table m with an error.
QueryFailed(m) == pkRange(pkRangeDB, tables1[m]).err # Nil

\* The input positions of the tables the first loop has started to translate
\* (lines 30-31 ran and pkRange, if called, did not fail).
Started == {m \in 1..Len(tables2) : tables2[m] # Nil} \cup (IF t2 = Nil THEN {} ELSE {i})

\* The translation of a started table, as far as it is built.
StartedTable(m) == IF tables2[m] # Nil THEN tables2[m] ELSE t2

\* The table-level auto-increment starts attached to t, in order.
IncrementStarts(t) ==
    LET as == SelectSeq(t.Attrs, LAMBDA a : a.k = "AutoIncrement")
    IN  [n \in 1..Len(as) |-> as[n].V]

\* The last query made was answered with an error.
LastQueryFailed == queries # <<>> /\ QueryFailed(Len(queries))

\* C12: with universal-ID mode enabled, aTables queries the primary-key range
\* once for every table its first loop reaches, in input order and before the
\* table has any translated column, and attaches the answer as the table's
\* only table-level auto-increment start; when a query fails, aTables returns
\* that error and no tables, and makes no further query. A successful
\* aTables has queried every table. With the mode disabled no query is made
\* and no table carries a table-level auto-increment start.
C12_QueriedOncePerReachedTable ==
    IF universalID
    THEN /\ Len(queries) <= Len(tables1)
         /\ queries = NamesUpTo(Len(queries))
         /\ \A m \in 1..(Len(queries) - 1) : ~QueryFailed(m)
         /\ Len(queries) = Cardinality(Started) + (IF LastQueryFailed THEN 1 ELSE 0)
         /\ \A m \in Started :
               /\ m <= Len(queries)
               /\ ~QueryFailed(m)
               /\ IncrementStarts(StartedTable(m)) = <<pkRange(pkRangeDB, tables1[m]).r>>
         /\ LastQueryFailed =>
               /\ Done
               /\ ret = [tables |-> Nil,
                         err |-> pkRange(pkRangeDB, tables1[Len(queries)]).err]
         /\ Succeeded =>
               /\ queries = NamesUpTo(Len(tables1))
               /\ \A m \in 1..Len(tables1) :
                     IncrementStarts(ret.tables[m]) = <<pkRange(pkRangeDB, tables1[m]).r>>
    ELSE /\ queries = <<>>
         /\ \A m \in Started : IncrementStarts(StartedTable(m)) = <<>>
         /\ Succeeded => \A m \in 1..Len(tables1) : IncrementStarts(ret.tables[m]) = <<>>

\* C12 as claimed: besides, with the mode enabled aTables has queried every
\* table by the time it returns, unless one of its queries failed.
C12_AsClaimed ==
    /\ C12_QueriedOncePerReachedTable
    /\ (universalID /\ Done /\ ~LastQueryFailed) => queries = NamesUpTo(Len(tables1))

\* In universal-ID mode the first table got its range start 2^32, the query
\* for the second failed, and aTables returned the error of the second table
\* after these two queries.
C12_Witness ==
    /\ universalID
    /\ Done
    /\ Len(tables1) >= 2
    /\ Len(queries) = 2
    /\ QueryFailed(2)
    /\ IncrementStarts(tables2[1]) = <<I64(65536, 0)>>
    /\ ret = [tables |-> Nil, err |-> Error("database", <<>>, tables1[2].Name)]

\* C13 as claimed: every translated column has a native type, whatever its
\* abstract type, size, raw type and the server version (atTypeC returned
\* without error for it); so has every column of every table a successful
\* aTables returns.
C13_AsClaimed ==
    /\ \A p \in TranslatedPairs : p[2].Type # Nil
    /\ Succeeded =>
          \A m \in 1..Len(ret.tables) :
              \A n \in 1..Len(ret.tables[m].Columns) : ret.tables[m].Columns[n].Type # Nil

====
